---- MODULE Spec2Model ----
(***************************************************************************)
(* Model of the OpenSIPS Prometheus exporter:                              *)
(*   - the mi_json client (Command) and the MI tree decoder (fromJson,     *)
(*     fromJsonList);                                                      *)
(*   - the statistics catalog (opensipsStats) and the matching loop of     *)
(*     collectStats;                                                       *)
(*   - the collector (Collect and its helpers) run by concurrent scrapes   *)
(*     over the cache guarded by the exporter's RWMutex.                   *)
(* Go strings are TLA+ strings; a Go map[string]string is a function over  *)
(* a finite set of strings; a decoded JSON object is the sequence of its   *)
(* <<key, value>> pairs in the order a range statement visits them.        *)
(***************************************************************************)
EXTENDS Integers, Sequences, FiniteSets, TLC

(***************************************************************************)
(* Strings                                                                 *)
(***************************************************************************)

CharAt(s, i) == SubSeq(s, i, i)

HasPrefix(s, pre) == Len(s) >= Len(pre) /\ SubSeq(s, 1, Len(pre)) = pre

HasSuffix(s, suf) ==
    Len(s) >= Len(suf) /\ SubSeq(s, Len(s) - Len(suf) + 1, Len(s)) = suf

Digits == {"0", "1", "2", "3", "4", "5", "6", "7", "8", "9"}

IsSpace(c) == c \in {" ", "\t", "\n", "\r"}

AllIn(s, class) == \A i \in 1..Len(s) : CharAt(s, i) \in class

\* strings.Index(s, sep) for a one-character sep; 0 when sep does not occur
Index(s, sep) ==
    IF \E i \in 1..Len(s) : CharAt(s, i) = sep
    THEN CHOOSE i \in 1..Len(s) :
             /\ CharAt(s, i) = sep
             /\ \A j \in 1..(i - 1) : CharAt(s, j) # sep
    ELSE 0

\* strings.SplitN(s, sep, 2)
SplitN2(s, sep) ==
    LET i == Index(s, sep)
    IN  IF i = 0 THEN <<s>>
        ELSE <<SubSeq(s, 1, i - 1), SubSeq(s, i + 1, Len(s))>>

RECURSIVE ReplaceAll(_, _, _)
\* strings.Replace(s, old, new, -1) for a one-character old
ReplaceAll(s, old, new) ==
    IF Len(s) = 0 THEN ""
    ELSE (IF Head(s) = old THEN new ELSE Head(s)) \o ReplaceAll(Tail(s), old, new)

RECURSIVE TrimLeft(_)
TrimLeft(s) ==
    IF Len(s) > 0 /\ IsSpace(Head(s)) THEN TrimLeft(Tail(s)) ELSE s

RECURSIVE TrimRight(_)
TrimRight(s) ==
    IF Len(s) > 0 /\ IsSpace(CharAt(s, Len(s)))
    THEN TrimRight(SubSeq(s, 1, Len(s) - 1))
    ELSE s

\* strings.TrimSpace
TrimSpace(s) == TrimRight(TrimLeft(s))

DigitVal(c) ==
    CASE c = "0" -> 0 [] c = "1" -> 1 [] c = "2" -> 2 [] c = "3" -> 3
      [] c = "4" -> 4 [] c = "5" -> 5 [] c = "6" -> 6 [] c = "7" -> 7
      [] c = "8" -> 8 [] c = "9" -> 9

RECURSIVE DecimalVal(_)
DecimalVal(s) ==
    IF Len(s) = 0 THEN 0
    ELSE 10 * DecimalVal(SubSeq(s, 1, Len(s) - 1)) + DigitVal(CharAt(s, Len(s)))

\* strconv.ParseFloat(s, 64) on the strings of the model (signs, decimal
\* digits, spaces and words that name no number): an optionally signed run
\* of digits parses to its value, anything else is a syntax error.
ParseFloat(s) ==
    LET body == IF Len(s) > 0 /\ Head(s) \in {"-", "+"} THEN Tail(s) ELSE s
        neg  == Len(s) > 0 /\ Head(s) = "-"
    IN  IF Len(body) > 0 /\ AllIn(body, Digits)
        THEN [err |-> FALSE,
              v |-> IF neg THEN 0 - DecimalVal(body) ELSE DecimalVal(body)]
        ELSE [err |-> TRUE, v |-> 0]

(***************************************************************************)
(* Go maps with string keys and string values                              *)
(***************************************************************************)

EmptyMap == [k \in {} |-> ""]

MapSet(m, k, v) == [x \in (DOMAIN m) \cup {k} |-> IF x = k THEN v ELSE m[x]]

\* m[k] of a Go map: the zero value when the key is absent
MapGet(m, k) == IF k \in DOMAIN m THEN m[k] ELSE ""

(***************************************************************************)
(* Decoded JSON values (interface{} as produced by encoding/json)          *)
(***************************************************************************)

JStr(s) == [t |-> "string", s |-> s]
JNum == [t |-> "float64"]
JNull == [t |-> "nil"]
JList(l) == [t |-> "list", l |-> l]
JMap(m) == [t |-> "map", m |-> m]

HasKey(m, k) == \E i \in 1..Len(m) : m[i][1] = k

Lookup(m, k) == m[CHOOSE i \in 1..Len(m) : m[i][1] = k][2]

\* val, exists := mapval[k]; x, ok := val.(T)
KeyIs(m, k, t) == HasKey(m, k) /\ Lookup(m, k).t = t

(***************************************************************************)
(* MINode and the decoder                                                  *)
(***************************************************************************)

\* &MINode{Name: name}: every map of a fresh node is nil
MINode(name) ==
    [Name |-> name, Value |-> "", Attrs |-> EmptyMap, Children |-> <<>>,
     ChildValues |-> EmptyMap, ChildValuesNil |-> TRUE]

Ok(n) == [err |-> "nil", n |-> n]
Error(n) == [err |-> "error", n |-> n]
\* a run-time panic (assignment to entry in nil map, failed type assertion)
Panic(n) == [err |-> "panic", n |-> n]

\* n.ChildValues[child.Name] = child.Value
SetChildValue(n, child) ==
    IF child.Name = "" THEN Ok(n)
    ELSE IF n.ChildValuesNil THEN Panic(n)
    ELSE Ok([n EXCEPT !.ChildValues = MapSet(@, child.Name, child.Value)])

RECURSIVE AttrsOf(_, _)
\* the loop over the "attributes" object: non-string elements are skipped
AttrsOf(m, i) ==
    IF i > Len(m) THEN EmptyMap
    ELSE LET rest == AttrsOf(m, i + 1)
         IN  IF m[i][2].t = "string"
             THEN MapSet(rest, m[i][1], m[i][2].s)
             ELSE rest

RECURSIVE fromJson(_, _)
RECURSIVE fromJsonListFrom(_, _, _)
RECURSIVE childrenFromMap(_, _, _)
RECURSIVE implicitFromMap(_, _, _)

\* the loop of fromJsonList from element i on
fromJsonListFrom(n, lst, i) ==
    IF i > Len(lst) THEN Ok(n)
    ELSE LET c == fromJson(MINode(""), lst[i])
         IN  IF c.err # "nil" THEN [err |-> c.err, n |-> n]
             ELSE LET n1 == [n EXCEPT !.Children = Append(@, c.n)]
                      r  == SetChildValue(n1, c.n)
                  IN  IF r.err # "nil" THEN r
                      ELSE fromJsonListFrom(r.n, lst, i + 1)

fromJsonList(n, lst) ==
    fromJsonListFrom([n EXCEPT !.Children = <<>>], lst, 1)

RECURSIVE childrenFromMapByKey(_, _, _)
\* the loop recording a child under the key it was read from, whatever
\* name its own decoding gave it
childrenFromMapByKey(n, mp, i) ==
    IF i > Len(mp) THEN Ok(n)
    ELSE LET k == mp[i][1]
             v == mp[i][2]
             child == MINode(k)
             c == CASE v.t = "string" -> Ok([child EXCEPT !.Value = v.s])
                    [] v.t = "map"    -> fromJson(child, v)
                    [] v.t = "list"   -> fromJsonList(child, v.l)
                    [] OTHER          -> Error(child)
         IN  IF c.err # "nil" THEN [err |-> c.err, n |-> n]
             ELSE childrenFromMapByKey(
                      [n EXCEPT !.Children = Append(@, c.n),
                                !.ChildValues = MapSet(@, k, c.n.Value)],
                      mp, i + 1)

\* the loop over a "children" object from pair i on
childrenFromMap(n, mp, i) ==
    IF i > Len(mp) THEN Ok(n)
    ELSE LET k == mp[i][1]
             v == mp[i][2]
             child == MINode(k)
             c == CASE v.t = "string" -> Ok([child EXCEPT !.Value = v.s])
                    [] v.t = "map"    -> fromJson(child, v)
                    [] v.t = "list"   -> fromJsonList(child, v.l)
                    [] OTHER          -> Error(child)
         IN  IF c.err # "nil" THEN [err |-> c.err, n |-> n]
             ELSE LET n1 == [n EXCEPT !.Children = Append(@, c.n)]
                      r  == SetChildValue(n1, c.n)
                  IN  IF r.err # "nil" THEN r
                      ELSE childrenFromMap(r.n, mp, i + 1)

\* the "parse as map" loop from pair i on: only string values make a child
implicitFromMap(n, mapval, i) ==
    IF i > Len(mapval) THEN n
    ELSE LET k == mapval[i][1]
             v == mapval[i][2]
         IN  IF v.t = "string"
             THEN implicitFromMap(
                      [n EXCEPT !.Children = Append(@, [MINode(k) EXCEPT !.Value = v.s]),
                                !.ChildValues = MapSet(@, k, v.s)],
                      mapval, i + 1)
             ELSE implicitFromMap(n, mapval, i + 1)

fromJson(n, value) ==
    IF value.t # "map" THEN Error(n)
    ELSE
    LET mapval == value.m
        hasName == KeyIs(mapval, "name", "string")
        hasValue == KeyIs(mapval, "value", "string")
        hasAttrs == KeyIs(mapval, "attributes", "map")
        n1 == IF hasName THEN [n EXCEPT !.Name = Lookup(mapval, "name").s] ELSE n
        n2 == IF hasValue THEN [n1 EXCEPT !.Value = Lookup(mapval, "value").s] ELSE n1
        n3 == IF hasAttrs
              THEN [n2 EXCEPT !.Attrs = AttrsOf(Lookup(mapval, "attributes").m, 1)]
              ELSE n2
        r4 == IF KeyIs(mapval, "children", "list")
              THEN fromJsonList(n3, Lookup(mapval, "children").l)
              ELSE IF KeyIs(mapval, "children", "map")
              THEN childrenFromMap(
                       [n3 EXCEPT !.Children = <<>>, !.ChildValues = EmptyMap,
                                  !.ChildValuesNil = FALSE],
                       Lookup(mapval, "children").m, 1)
              ELSE Ok(n3)
        isNode == \/ hasName \/ hasValue \/ hasAttrs
                  \/ KeyIs(mapval, "children", "list")
                  \/ KeyIs(mapval, "children", "map")
    IN  IF r4.err # "nil" THEN r4
        ELSE IF isNode THEN r4
        ELSE IF Len(mapval) = 1 /\ mapval[1][2].t = "list"
        THEN fromJsonList([n3 EXCEPT !.Name = mapval[1][1]], mapval[1][2].l)
        ELSE Ok(implicitFromMap(
                    [n3 EXCEPT !.Children = <<>>, !.ChildValues = EmptyMap,
                               !.ChildValuesNil = FALSE],
                    mapval, 1))

(***************************************************************************)
(* The mi_json client                                                      *)
(***************************************************************************)

\* An HTTP exchange: the transport outcome, the status code and what
\* json.Decoder makes of the body (body is a JSON value; decoding into a
\* map[string]interface{} fails unless it is an object).
Response(transport, status, body) ==
    [transport |-> transport, status |-> status, body |-> body]

HttpOk(body) == Response("ok", 200, body)

Command(resp) ==
    IF resp.transport # "ok" THEN Error(MINode(""))
    ELSE IF resp.status # 200 THEN Error(MINode(""))
    ELSE IF resp.body.t # "map" THEN Error(MINode(""))
    ELSE IF HasKey(resp.body.m, "error")
    THEN (IF Lookup(resp.body.m, "error").t = "map"
          THEN Error(MINode(""))
          ELSE Panic(MINode("")))
    ELSE LET r == fromJson(MINode(""), resp.body)
         IN  IF r.err = "nil" THEN r ELSE [err |-> r.err, n |-> MINode("")]

(***************************************************************************)
(* The statistics catalog                                                  *)
(***************************************************************************)

namespace == "opensips"

\* Every pattern of the catalog is ^pre(?P<group>class)suf$ with class one
\* of .+, \d+ and [2-6]xx; a compiled pattern is kept as these four parts.
Regexp(pre, group, class, suf) ==
    [pre |-> pre, group |-> group, class |-> class, suf |-> suf]

\* the nil *regexp.Regexp of a literal definition
NilRegexp == Regexp("", "", "nil", "")

\* regexp.SubexpNames(): the unnamed whole match, then the named groups
SubexpNames(re) == <<"", re.group>>

ClassMatches(class, mid) ==
    CASE class = "any+"    -> Len(mid) >= 1 /\ \A i \in 1..Len(mid) : CharAt(mid, i) # "\n"
      [] class = "digit+"  -> Len(mid) >= 1 /\ AllIn(mid, Digits)
      [] class = "[2-6]xx" -> /\ Len(mid) = 3
                              /\ CharAt(mid, 1) \in {"2", "3", "4", "5", "6"}
                              /\ SubSeq(mid, 2, 3) = "xx"
      [] OTHER             -> FALSE

\* re.FindStringSubmatch(s): <<>> for nil, else the whole match and the group
FindStringSubmatch(re, s) ==
    LET mid == SubSeq(s, Len(re.pre) + 1, Len(s) - Len(re.suf))
    IN  IF /\ Len(s) >= Len(re.pre) + Len(re.suf)
           /\ HasPrefix(s, re.pre)
           /\ HasSuffix(s, re.suf)
           /\ ClassMatches(re.class, mid)
        THEN <<s, mid>>
        ELSE <<>>

opensipsStats ==
       "core" :> <<
        [name |-> "received_requests_total", stat |-> "rcv_requests", regexp |-> NilRegexp, value |-> "counter"],
        [name |-> "received_replies_total", stat |-> "rcv_replies", regexp |-> NilRegexp, value |-> "counter"],
        [name |-> "forwarded_requests_total", stat |-> "fwd_requests", regexp |-> NilRegexp, value |-> "counter"],
        [name |-> "forwarded_replies_total", stat |-> "fwd_replies", regexp |-> NilRegexp, value |-> "counter"],
        [name |-> "dropped_requests_total", stat |-> "drop_requests", regexp |-> NilRegexp, value |-> "counter"],
        [name |-> "dropped_replies_total", stat |-> "drop_replies", regexp |-> NilRegexp, value |-> "counter"],
        [name |-> "error_requests_total", stat |-> "err_requests", regexp |-> NilRegexp, value |-> "counter"],
        [name |-> "error_replies_total", stat |-> "err_replies", regexp |-> NilRegexp, value |-> "counter"],
        [name |-> "bad_uris_received_total", stat |-> "bad_URIs_rcvd", regexp |-> NilRegexp, value |-> "counter"],
        [name |-> "unsupported_methods_total", stat |-> "unsupported_methods", regexp |-> NilRegexp, value |-> "counter"],
        [name |-> "bad_message_headers_total", stat |-> "bad_msg_hdr", regexp |-> NilRegexp, value |-> "counter"],
        [name |-> "uptime_seconds_total", stat |-> "timestamp", regexp |-> NilRegexp, value |-> "counter"] >>
    @@ "dialog" :> <<
        [name |-> "active_dialogs", stat |-> "active_dialogs", regexp |-> NilRegexp, value |-> "gauge"],
        [name |-> "early_dialogs", stat |-> "early_dialogs", regexp |-> NilRegexp, value |-> "gauge"],
        [name |-> "processed_dialogs_total", stat |-> "processed_dialogs", regexp |-> NilRegexp, value |-> "counter"],
        [name |-> "expired_dialogs_total", stat |-> "expired_dialogs", regexp |-> NilRegexp, value |-> "counter"],
        [name |-> "failed_dialogs_total", stat |-> "failed_dialogs", regexp |-> NilRegexp, value |-> "counter"],
        [name |-> "replication_messages_sent_total", stat |-> "", regexp |-> Regexp("", "operation", "any+", "_sent"), value |-> "counter"],
        [name |-> "replication_messages_received_total", stat |-> "", regexp |-> Regexp("", "operation", "any+", "_recv"), value |-> "counter"] >>
    @@ "load" :> <<
        [name |-> "load", stat |-> "load", regexp |-> NilRegexp, value |-> "gauge"],
        [name |-> "load_all", stat |-> "load-all", regexp |-> NilRegexp, value |-> "gauge"],
        [name |-> "process_load", stat |-> "", regexp |-> Regexp("load-proc-", "id", "digit+", ""), value |-> "gauge"] >>
    @@ "msilo" :> <<
        [name |-> "stored_messages_total", stat |-> "stored_messages", regexp |-> NilRegexp, value |-> "counter"],
        [name |-> "dumped_messages_total", stat |-> "dumped_messages", regexp |-> NilRegexp, value |-> "counter"],
        [name |-> "failed_messages_total", stat |-> "failed_messages", regexp |-> NilRegexp, value |-> "counter"],
        [name |-> "dumped_reminders_total", stat |-> "dumped_reminders", regexp |-> NilRegexp, value |-> "counter"],
        [name |-> "failed_reminders_total", stat |-> "failed_reminders", regexp |-> NilRegexp, value |-> "counter"] >>
    @@ "nat_traversal" :> <<
        [name |-> "keepalive_endpoints", stat |-> "keepalive_endpoints", regexp |-> NilRegexp, value |-> "gauge"],
        [name |-> "registered_endpoints", stat |-> "registered_endpoints", regexp |-> NilRegexp, value |-> "gauge"],
        [name |-> "subscribed_endpoints", stat |-> "subscribed_endpoints", regexp |-> NilRegexp, value |-> "gauge"],
        [name |-> "dialog_endpoints", stat |-> "dialog_endpoints", regexp |-> NilRegexp, value |-> "gauge"] >>
    @@ "net" :> <<
        [name |-> "waiting_bytes", stat |-> "", regexp |-> Regexp("waiting_", "transport", "any+", ""), value |-> "gauge"] >>
    @@ "pkmem" :> <<
        [name |-> "total_size_bytes", stat |-> "", regexp |-> Regexp("", "id", "digit+", "-total_size"), value |-> "gauge"],
        [name |-> "used_size_bytes", stat |-> "", regexp |-> Regexp("", "id", "digit+", "-used_size"), value |-> "gauge"],
        [name |-> "real_used_size_bytes", stat |-> "", regexp |-> Regexp("", "id", "digit+", "-real_used_size"), value |-> "gauge"],
        [name |-> "max_used_size_bytes", stat |-> "", regexp |-> Regexp("", "id", "digit+", "-max_used_size"), value |-> "gauge"],
        [name |-> "free_size_bytes", stat |-> "", regexp |-> Regexp("", "id", "digit+", "-free_size"), value |-> "gauge"],
        [name |-> "fragments", stat |-> "", regexp |-> Regexp("", "id", "digit+", "-fragments"), value |-> "gauge"] >>
    @@ "registrar" :> <<
        [name |-> "max_expires", stat |-> "max_expires", regexp |-> NilRegexp, value |-> "gauge"],
        [name |-> "max_contacts", stat |-> "max_contacts", regexp |-> NilRegexp, value |-> "gauge"],
        [name |-> "default_expires", stat |-> "default_expire", regexp |-> NilRegexp, value |-> "gauge"],
        [name |-> "accepted_registrations_total", stat |-> "accepted_registrations", regexp |-> NilRegexp, value |-> "counter"],
        [name |-> "rejected_registrations_total", stat |-> "rejected_registrations", regexp |-> NilRegexp, value |-> "counter"] >>
    @@ "shmem" :> <<
        [name |-> "total_size_bytes", stat |-> "total_size", regexp |-> NilRegexp, value |-> "gauge"],
        [name |-> "used_size_bytes", stat |-> "used_size", regexp |-> NilRegexp, value |-> "gauge"],
        [name |-> "real_used_size_bytes", stat |-> "real_used_size", regexp |-> NilRegexp, value |-> "gauge"],
        [name |-> "max_used_size_bytes", stat |-> "max_used_size", regexp |-> NilRegexp, value |-> "gauge"],
        [name |-> "free_size_bytes", stat |-> "free_size", regexp |-> NilRegexp, value |-> "gauge"],
        [name |-> "fragments", stat |-> "fragments", regexp |-> NilRegexp, value |-> "gauge"] >>
    @@ "sipcapture" :> <<
        [name |-> "captured_requests_total", stat |-> "captured_requests", regexp |-> NilRegexp, value |-> "counter"],
        [name |-> "captured_replies_total", stat |-> "captured_replies", regexp |-> NilRegexp, value |-> "counter"] >>
    @@ "siptrace" :> <<
        [name |-> "traced_requests_total", stat |-> "traced_requests", regexp |-> NilRegexp, value |-> "counter"],
        [name |-> "traced_replies_total", stat |-> "traced_replies", regexp |-> NilRegexp, value |-> "counter"] >>
    @@ "sl" :> <<
        [name |-> "sent_replies", stat |-> "", regexp |-> Regexp("", "code", "[2-6]xx", "_replies"), value |-> "counter"],
        [name |-> "sent_replies_total", stat |-> "sent_replies", regexp |-> NilRegexp, value |-> "counter"],
        [name |-> "sent_error_replies_total", stat |-> "sent_err_replies", regexp |-> NilRegexp, value |-> "counter"],
        [name |-> "received_acks_total", stat |-> "received_ACKs", regexp |-> NilRegexp, value |-> "counter"] >>
    @@ "sst" :> <<
        [name |-> "expired_sst_total", stat |-> "expired_sst", regexp |-> NilRegexp, value |-> "counter"] >>
    @@ "tm" :> <<
        [name |-> "received_replies_total", stat |-> "received_replies", regexp |-> NilRegexp, value |-> "counter"],
        [name |-> "relayed_replies_total", stat |-> "relayed_replies", regexp |-> NilRegexp, value |-> "counter"],
        [name |-> "local_replies_total", stat |-> "local_replies", regexp |-> NilRegexp, value |-> "counter"],
        [name |-> "uas_transactions_total", stat |-> "UAS_transactions", regexp |-> NilRegexp, value |-> "counter"],
        [name |-> "uac_transactions_total", stat |-> "UAC_transactions", regexp |-> NilRegexp, value |-> "counter"],
        [name |-> "transactions_total", stat |-> "", regexp |-> Regexp("", "code", "[2-6]xx", "_transactions"), value |-> "counter"],
        [name |-> "inuse_transactions", stat |-> "inuse_transactions", regexp |-> NilRegexp, value |-> "gauge"] >>
    @@ "uri" :> <<
        [name |-> "positive_checks_total", stat |-> "positive_checks", regexp |-> NilRegexp, value |-> "counter"],
        [name |-> "negative_checks_total", stat |-> "negative_checks", regexp |-> NilRegexp, value |-> "counter"] >>
    @@ "usrloc" :> <<
        [name |-> "registered_users", stat |-> "registered_users", regexp |-> NilRegexp, value |-> "gauge"] >>

Subsystems == DOMAIN opensipsStats

\* prometheus.BuildFQName
BuildFQName(ns, subsystem, name) ==
    IF name = "" THEN ""
    ELSE IF ns # "" /\ subsystem # "" THEN ns \o "_" \o subsystem \o "_" \o name
    ELSE IF ns # "" THEN ns \o "_" \o name
    ELSE IF subsystem # "" THEN subsystem \o "_" \o name
    ELSE name

\* prometheus.NewDesc(fqName, help, labels, nil), help left out
NewDesc(fqName, labels) == [fqName |-> fqName, labels |-> labels]

\* init(): the descriptor of definition i of a subsystem
StatDesc(subsys, i) ==
    LET stat == opensipsStats[subsys][i]
        labels == IF stat.regexp # NilRegexp
                  THEN Tail(SubexpNames(stat.regexp))
                  ELSE <<>>
    IN  NewDesc(BuildFQName(namespace, subsys, stat.name), labels)

\* prometheus.MustNewConstMetric: a sample sent on the metrics channel
Metric(desc, valueType, value, labelValues) ==
    [desc |-> desc, valueType |-> valueType, value |-> value,
     labelValues |-> labelValues]

(***************************************************************************)
(* collectStats: the body of the loop over resp.ChildValues                *)
(***************************************************************************)

NoMatch == [i |-> 0, mm |-> <<>>]

RECURSIVE MatchStatPrefix(_, _, _)
\* the inner loop comparing a literal with strings.HasPrefix in place of ==
MatchStatPrefix(stats, i, metric) ==
    IF i > Len(stats) THEN NoMatch
    ELSE LET stat == stats[i]
         IN  IF stat.regexp # NilRegexp
             THEN LET mm == FindStringSubmatch(stat.regexp, metric)
                  IN  IF mm # <<>> THEN [i |-> i, mm |-> mm]
                      ELSE MatchStatPrefix(stats, i + 1, metric)
             ELSE IF HasPrefix(metric, stat.stat) THEN [i |-> i, mm |-> <<metric>>]
             ELSE MatchStatPrefix(stats, i + 1, metric)

RECURSIVE MatchStat(_, _, _)
\* the inner loop from definition i on: the index of the definition that
\* sends a metric and breaks, with the submatches of a pattern; 0 when the
\* loop runs to its end
MatchStat(stats, i, metric) ==
    IF i > Len(stats) THEN NoMatch
    ELSE LET stat == stats[i]
         IN  IF stat.regexp # NilRegexp
             THEN LET mm == FindStringSubmatch(stat.regexp, metric)
                  IN  IF mm # <<>> THEN [i |-> i, mm |-> mm]
                      ELSE MatchStat(stats, i + 1, metric)
             ELSE IF metric = stat.stat THEN [i |-> i, mm |-> <<metric>>]
             ELSE MatchStat(stats, i + 1, metric)

\* one iteration that goes on with value 0 when ParseFloat fails
StatEntryIgnoringParseError(statName, statValue) ==
    LET parts == SplitN2(statName, ":")
        skip == [sent |-> <<>>, setsUptime |-> FALSE, uptime |-> 0]
    IN  IF Len(parts) # 2 THEN skip
        ELSE
        LET subsys == parts[1]
            metric == ReplaceAll(parts[2], " ", "_")
            pf == ParseFloat(statValue)
            isTs == statName = "core:timestamp"
            m == IF subsys \in Subsystems
                 THEN MatchStat(opensipsStats[subsys], 1, metric)
                 ELSE NoMatch
        IN  [sent |-> IF m.i = 0 THEN <<>>
                      ELSE <<Metric(StatDesc(subsys, m.i),
                                    opensipsStats[subsys][m.i].value,
                                    pf.v, Tail(m.mm))>>,
             setsUptime |-> isTs,
             uptime |-> pf.v]

\* one iteration that passes mm where the code passes mm[1:]
StatEntryWholeMatch(statName, statValue) ==
    LET parts == SplitN2(statName, ":")
        skip == [sent |-> <<>>, setsUptime |-> FALSE, uptime |-> 0]
    IN  IF Len(parts) # 2 THEN skip
        ELSE
        LET subsys == parts[1]
            metric == ReplaceAll(parts[2], " ", "_")
            pf == ParseFloat(statValue)
        IN  IF pf.err THEN skip
            ELSE
            LET isTs == statName = "core:timestamp"
                m == IF subsys \in Subsystems
                     THEN MatchStat(opensipsStats[subsys], 1, metric)
                     ELSE NoMatch
            IN  [sent |-> IF m.i = 0 THEN <<>>
                          ELSE <<Metric(StatDesc(subsys, m.i),
                                        opensipsStats[subsys][m.i].value,
                                        pf.v, m.mm)>>,
                 setsUptime |-> isTs,
                 uptime |-> pf.v]

\* One iteration for the entry statName -> statValue: the samples it sends
\* (none or one) and the value it assigns to uptime, if any.
StatEntry(statName, statValue) ==
    LET parts == SplitN2(statName, ":")
        skip == [sent |-> <<>>, setsUptime |-> FALSE, uptime |-> 0]
    IN  IF Len(parts) # 2 THEN skip
        ELSE
        LET subsys == parts[1]
            metric == ReplaceAll(parts[2], " ", "_")
            pf == ParseFloat(statValue)
        IN  IF pf.err THEN skip
            ELSE
            LET isTs == statName = "core:timestamp"
                m == IF subsys \in Subsystems
                     THEN MatchStat(opensipsStats[subsys], 1, metric)
                     ELSE NoMatch
            IN  [sent |-> IF m.i = 0 THEN <<>>
                          ELSE <<Metric(StatDesc(subsys, m.i),
                                        opensipsStats[subsys][m.i].value,
                                        pf.v, Tail(m.mm))>>,
                 setsUptime |-> isTs,
                 uptime |-> pf.v]

RECURSIVE StatsLoop(_, _, _, _)
\* the loop over the entries of childValues visited in the given order
StatsLoop(childValues, order, i, acc) ==
    IF i > Len(order) THEN acc
    ELSE LET e == StatEntry(order[i], childValues[order[i]])
         IN  StatsLoop(childValues, order, i + 1,
                       [sent |-> acc.sent \o e.sent,
                        uptime |-> IF e.setsUptime THEN e.uptime ELSE acc.uptime])

\* the orders in which a range statement may visit a set of keys
RECURSIVE Orders(_)
Orders(S) ==
    IF S = {} THEN {<<>>}
    ELSE UNION {{<<k>> \o o : o \in Orders(S \ {k})} : k \in S}

(***************************************************************************)
(* versionRegexp and profileValuesRegexp                                   *)
(* A pattern is a sequence of elements matched left to right with          *)
(* backtracking, a repetition trying its longest run first (the leftmost-  *)
(* first semantics of Go's regexp).                                        *)
(***************************************************************************)

Lit(c) == [kind |-> "lit", c |-> c, class |-> "", min |-> 1, cap |-> FALSE]
\* class+ (min = 1) or class* (min = 0), capturing or not
Rep(class, min, cap) == [kind |-> "rep", c |-> "", class |-> class, min |-> min, cap |-> cap]
\* (?:^|,)
BolOrComma == [kind |-> "bolOrComma", c |-> ",", class |-> "", min |-> 0, cap |-> FALSE]

LowerAlnum ==
    Digits \cup {"a", "b", "c", "d", "e", "f", "g", "h", "i", "j", "k", "l", "m",
                 "n", "o", "p", "q", "r", "s", "t", "u", "v", "w", "x", "y", "z"}

\* \s of Go's regexp syntax
IsReSpace(c) == c \in {" ", "\t", "\n", "\f", "\r"}

InClass(class, c) ==
    CASE class = "\\S"        -> ~IsReSpace(c)
      [] class = "\\s"        -> IsReSpace(c)
      [] class = "[a-z0-9_]"  -> c \in LowerAlnum \cup {"_"}
      [] class = "[^,]"       -> c # ","

RECURSIVE Run(_, _, _)
\* the length of the longest run of class characters of s starting at pos
Run(s, pos, class) ==
    IF pos <= Len(s) /\ InClass(class, CharAt(s, pos))
    THEN 1 + Run(s, pos + 1, class)
    ELSE 0

ReFail == [ok |-> FALSE, end |-> 0, caps |-> <<>>]

RECURSIVE ReMatch(_, _, _, _)
RECURSIVE ReTry(_, _, _, _, _)

\* match elements pi.. of pat against s from pos: the preferred match
ReMatch(pat, pi, s, pos) ==
    IF pi > Len(pat) THEN [ok |-> TRUE, end |-> pos, caps |-> <<>>]
    ELSE LET e == pat[pi]
         IN  CASE e.kind = "lit" ->
                    IF pos <= Len(s) /\ CharAt(s, pos) = e.c
                    THEN ReMatch(pat, pi + 1, s, pos + 1)
                    ELSE ReFail
               [] e.kind = "rep" -> ReTry(pat, pi, s, pos, Run(s, pos, e.class))
               [] e.kind = "bolOrComma" ->
                    LET atBol == IF pos = 1 THEN ReMatch(pat, pi + 1, s, pos) ELSE ReFail
                    IN  IF atBol.ok THEN atBol
                        ELSE IF pos <= Len(s) /\ CharAt(s, pos) = e.c
                        THEN ReMatch(pat, pi + 1, s, pos + 1)
                        ELSE ReFail

\* the repetition pat[pi] taking len characters, then fewer
ReTry(pat, pi, s, pos, len) ==
    IF len < pat[pi].min THEN ReFail
    ELSE LET r == ReMatch(pat, pi + 1, s, pos + len)
         IN  IF r.ok
             THEN [r EXCEPT !.caps = IF pat[pi].cap
                                     THEN <<SubSeq(s, pos, pos + len - 1)>> \o @
                                     ELSE @]
             ELSE ReTry(pat, pi, s, pos, len - 1)

RECURSIVE ReFind(_, _, _)
\* the leftmost match of pat in s starting at or after from
ReFind(pat, s, from) ==
    IF from > Len(s) + 1 THEN ReFail
    ELSE LET r == ReMatch(pat, 1, s, from)
         IN  IF r.ok THEN r ELSE ReFind(pat, s, from + 1)

RECURSIVE ReFindAll(_, _, _)
\* FindAllStringSubmatch(s, -1): the captures of successive matches (every
\* match of the patterns used here is non-empty)
ReFindAll(pat, s, from) ==
    LET r == ReFind(pat, s, from)
    IN  IF r.ok THEN <<r.caps>> \o ReFindAll(pat, s, r.end) ELSE <<>>

versionRegexp ==
    <<Rep("\\S", 1, TRUE), Rep("\\s", 1, FALSE), Lit("("),
      Rep("\\S", 1, TRUE), Rep("\\s", 1, FALSE), Lit("("),
      Rep("\\S", 1, TRUE), Lit("/"), Rep("\\S", 1, TRUE), Lit(")"), Lit(")")>>

profileValuesRegexp ==
    <<BolOrComma, Rep("[a-z0-9_]", 1, TRUE), Lit("="), Rep("[^,]", 0, TRUE)>>

\* the scrapes that may run Collect at the same time
Passes == {1, 2}

\* the calls of Collect in one run of the model
MaxScrapes == 3

\* the values of core:timestamp the monitored OpenSIPS may report
Timestamps == {"-1", "1", "2"}

(***************************************************************************)
(* What the monitored OpenSIPS may answer                                  *)
(***************************************************************************)

\* bodies of answers that make Command return an error: a transport error,
\* a status other than 200, a body that is no JSON object, an MI error object
ErrorResponses ==
    {Response("error", 0, JNull),
     Response("ok", 500, JNull),
     HttpOk(JList(<<>>)),
     HttpOk(JMap(<< <<"error", JMap(<< <<"message", JStr("failed")>> >>)>> >>))}

\* an MI error that is not a JSON object
ErrorStringResponse == HttpOk(JMap(<< <<"error", JStr("failed")>> >>))

\* a wrapped array of one named node
NamedChildResponse ==
    HttpOk(JMap(<< <<"Process", JList(<<JMap(<< <<"name", JStr("p")>> >>)>>)>> >>))

VersionResponses ==
    {HttpOk(JMap(<< <<"Server", JStr("OpenSIPS (2.4.0 (x86_64/linux))")>> >>)),
     HttpOk(JMap(<< <<"Server", JStr("OpenSIPS")>> >>)),
     ErrorStringResponse}
    \cup ErrorResponses

ValueNode(v) == JMap(<< <<"value", JStr(v)>> >>)

WhichResponses ==
    {HttpOk(JMap(<< <<"children", JList(<<ValueNode("get_statistics"),
                                          ValueNode("list_all_profiles")>>)>> >>)),
     HttpOk(JMap(<< <<"children", JList(<<ValueNode("get_statistics")>>)>> >>)),
     HttpOk(JMap(<< <<"children", JList(<<ValueNode("list_all_profiles")>>)>> >>)),
     HttpOk(JMap(<< <<"children", JList(<<>>)>> >>)),
     ErrorStringResponse}
    \cup ErrorResponses

ProcessNode(id, type) ==
    JMap(<< <<"attributes", JMap(<< <<"ID", JStr(id)>>, <<"Type", JStr(type)>> >>)>> >>)

PsResponses ==
    {HttpOk(JMap(<< <<"Process", JList(<<ProcessNode("1", "attendant"),
                                         ProcessNode("2", " MI FIFO ")>>)>> >>)),
     HttpOk(JMap(<< <<"Process", JList(<<>>)>> >>)),
     NamedChildResponse,
     ErrorStringResponse}
    \cup ErrorResponses

StatisticsResponses ==
    {HttpOk(JMap(<< <<"core:timestamp", JStr(ts)>> >>)) : ts \in Timestamps}
    \cup {HttpOk(JMap(<< <<"core:rcv_requests", JStr("42")>> >>)),
          ErrorStringResponse}
    \cup ErrorResponses

ProfilesResponses ==
    {HttpOk(JMap(<< <<"caller", JStr("1")>>, <<"callee", JStr("0")>> >>)),
     HttpOk(JMap(<<>>)),
     ErrorStringResponse}
    \cup ErrorResponses

ProfileValueNode(value, count) ==
    JMap(<< <<"value", JStr(value)>>,
            <<"attributes", JMap(<< <<"count", JStr(count)>> >>)>> >>)

ProfileValuesResponses ==
    {HttpOk(JMap(<< <<"ProfileValues",
                      JList(<<ProfileValueNode("key1=a,key2=b", "7"),
                              ProfileValueNode("plain", "3"),
                              ProfileValueNode("k=v", "many")>>)>> >>)),
     NamedChildResponse,
     ErrorStringResponse}
    \cup ErrorResponses

\* every answer above, to scrapes that follow one another
AllAnswers ==
    [version |-> VersionResponses, which |-> WhichResponses, ps |-> PsResponses,
     statistics |-> StatisticsResponses, profiles |-> ProfilesResponses,
     profileValues |-> ProfileValuesResponses, scrapes |-> MaxScrapes]

\* the answers given to scrapes that run at the same time, one call of
\* Collect for each
Answers ==
    [version |-> {HttpOk(JMap(<< <<"Server", JStr("OpenSIPS (2.4.0 (x86_64/linux))")>> >>)),
                  Response("error", 0, JNull), ErrorStringResponse},
     which |-> {HttpOk(JMap(<< <<"children", JList(<<ValueNode("get_statistics"),
                                                      ValueNode("list_all_profiles")>>)>> >>)),
                Response("error", 0, JNull)},
     ps |-> {HttpOk(JMap(<< <<"Process", JList(<<ProcessNode("1", "attendant")>>)>> >>)),
             Response("error", 0, JNull)},
     statistics |-> {HttpOk(JMap(<< <<"core:timestamp", JStr("-1")>> >>)),
                     HttpOk(JMap(<< <<"core:timestamp", JStr("1")>> >>)),
                     Response("error", 0, JNull)},
     profiles |-> {HttpOk(JMap(<< <<"caller", JStr("1")>> >>)),
                   Response("error", 0, JNull)},
     profileValues |-> {HttpOk(JMap(<< <<"ProfileValues",
                                         JList(<<ProfileValueNode("key1=a,key2=b", "7")>>)>> >>)),
                        Response("error", 0, JNull), ErrorStringResponse},
     scrapes |-> Cardinality(Passes)]

\* the default of the opensips.url flag
DefaultUrl == "http://127.0.0.1:8062/json"

Urls == {DefaultUrl, ":8062"}

\* url.Parse on Urls: a URL that starts with a colon has no protocol scheme
UrlParseFails(u) == HasPrefix(u, ":")

(***************************************************************************)
(* The exporter and its collection passes                                  *)
(***************************************************************************)

VARIABLES
    url,         \* opensipsExporter.url
    mu,          \* opensipsExporter.mu: the writer (0: none) and the readers
    commands,    \* opensipsExporter.commands: the keys of the map
    processes,   \* opensipsExporter.processes
    profiles,    \* opensipsExporter.profiles
    lastUptime,  \* opensipsExporter.lastUptime
    pass,        \* the locals of each running Collect and what it sent
    scrapes,     \* the number of calls of Collect so far
    prevUptime,  \* history: the reference uptime of the latest finished pass
    statsRun,    \* one run of the loop of collectStats over a dump
    valuesRun,   \* one run of the inner loop of collectDialogProfiles
    decodeRun    \* one call of fromJson

vars == <<url, mu, commands, processes, profiles, lastUptime, pass, scrapes,
          prevUptime, statsRun, valuesRun, decodeRun>>

cache == <<commands, processes, profiles, lastUptime>>

upDesc == NewDesc(BuildFQName(namespace, "", "up"), <<>>)
versionInfoDesc ==
    NewDesc(BuildFQName(namespace, "", "version_info"),
            <<"server", "version", "arch", "os">>)
processInfoDesc ==
    NewDesc(BuildFQName(namespace, "", "process_info"), <<"id", "type">>)
profilesValuesInfoDesc ==
    NewDesc(BuildFQName(namespace, "dialog", "profiles_with_values_count"),
            <<"profile", "value">>)

\* the locals of Collect before its first statement; err is the outcome of
\* the latest call of NewMIJsonClient or Command ("panic": it did not return)
NewPass ==
    [pc |-> "idle", up |-> 0, uptime |-> 0, err |-> "nil", before |-> 0,
     hasCommands |-> FALSE, hasProcesses |-> FALSE, hasProfiles |-> FALSE,
     hasStatisticsCommand |-> FALSE, hasProfilesCommand |-> FALSE,
     restart |-> FALSE, cmds |-> {}, processes |-> <<>>, profiles |-> EmptyMap,
     todo |-> {}, ch |-> <<>>, issued |-> <<>>]

\* the entries of a dump still to visit, what was sent, and uptime
NoStatsRun == [childValues |-> EmptyMap, todo |-> {}, ch |-> <<>>, uptime |-> 0]

\* the nodes of an answer to profile_get_values still to visit and what was
\* sent for the nodes visited
NoValuesRun == [profile |-> "", children |-> <<>>, i |-> 1, ch |-> <<>>]

\* the value handed to fromJson and, once it returned, its outcome
NoDecodeRun == [value |-> JNull, returned |-> FALSE, r |-> Ok(MINode(""))]

\* the exporter newOpensipsExporter returns, before any scrape
NewExporter ==
    /\ mu = [w |-> 0, r |-> {}]
    /\ commands = {}
    /\ processes = <<>>
    /\ profiles = EmptyMap
    /\ lastUptime = 0
    /\ pass = [p \in Passes |-> NewPass]
    /\ scrapes = 0
    /\ prevUptime = 0

Init ==
    /\ url \in Urls
    /\ NewExporter
    /\ statsRun = NoStatsRun
    /\ valuesRun = NoValuesRun
    /\ decodeRun = NoDecodeRun

\* an unrecovered panic of one Collect ends the program
Crashed == \E p \in Passes : pass[p].pc = "panicked"

At(p, label) == ~Crashed /\ pass[p].pc = label

\* sync.RWMutex
CanRLock == mu.w = 0
CanLock == mu.w = 0 /\ mu.r = {}
RLock(p) == mu' = [mu EXCEPT !.r = @ \cup {p}]
RUnlock(p) == mu' = [mu EXCEPT !.r = @ \ {p}]
Lock(p) == mu' = [mu EXCEPT !.w = p]
Unlock(p) == mu' = [mu EXCEPT !.w = 0]

\* a panic unwinds to the deferred send of Collect
Panicked(l) == [l EXCEPT !.pc = "deferred", !.err = "panic"]

\* Collect is called by a scrape
Start(p, W) ==
    /\ ~Crashed
    /\ pass[p].pc \in {"idle", "done"}
    /\ scrapes < W.scrapes
    /\ scrapes' = scrapes + 1
    /\ pass' = [pass EXCEPT ![p] = [NewPass EXCEPT !.pc = "NewMIJsonClient",
                                                  !.before = prevUptime]]
    /\ UNCHANGED <<url, mu, cache, prevUptime, statsRun, valuesRun, decodeRun>>

NewMIJsonClient(p, W) ==
    /\ At(p, "NewMIJsonClient")
    /\ pass' = [pass EXCEPT ![p] =
                   IF UrlParseFails(url)
                   THEN [@ EXCEPT !.pc = "deferred", !.err = "error"]
                   ELSE [@ EXCEPT !.pc = "collectVersionInfo"]]
    /\ UNCHANGED <<url, mu, cache, scrapes, prevUptime, statsRun, valuesRun, decodeRun>>

\* what collectVersionInfo sends for the answer to "version"
VersionMetrics(resp) ==
    LET m == ReFind(versionRegexp, MapGet(resp.ChildValues, "Server"), 1)
    IN  IF m.ok THEN <<Metric(versionInfoDesc, "gauge", 1, m.caps)>> ELSE <<>>

\* Collect going on after collectVersionInfo returned an error
CollectVersionInfoIgnoringError(p, W) ==
    /\ At(p, "collectVersionInfo")
    /\ \E r \in W.version :
          \E res \in {Command(r)} :
          LET l == [pass[p] EXCEPT !.issued = Append(@, "version"), !.err = res.err]
          IN  pass' = [pass EXCEPT ![p] =
                  CASE res.err = "panic" -> Panicked(l)
                    [] res.err = "error" -> [l EXCEPT !.pc = "RLock72", !.up = 1]
                    [] OTHER -> [l EXCEPT !.pc = "RLock72", !.up = 1,
                                          !.ch = @ \o VersionMetrics(res.n)]]
    /\ UNCHANGED <<url, mu, cache, scrapes, prevUptime, statsRun, valuesRun, decodeRun>>

CollectVersionInfo(p, W) ==
    /\ At(p, "collectVersionInfo")
    /\ \E r \in W.version :
          \E res \in {Command(r)} :
          LET l == [pass[p] EXCEPT !.issued = Append(@, "version"), !.err = res.err]
          IN  pass' = [pass EXCEPT ![p] =
                  CASE res.err = "panic" -> Panicked(l)
                    [] res.err = "error" -> [l EXCEPT !.pc = "deferred", !.err = "error"]
                    [] OTHER -> [l EXCEPT !.pc = "RLock72", !.up = 1,
                                          !.ch = @ \o VersionMetrics(res.n)]]
    /\ UNCHANGED <<url, mu, cache, scrapes, prevUptime, statsRun, valuesRun, decodeRun>>

SnapshotRLock(p, W) ==
    /\ At(p, "RLock72")
    /\ CanRLock
    /\ RLock(p)
    /\ pass' = [pass EXCEPT ![p].pc = "Read73"]
    /\ UNCHANGED <<url, cache, scrapes, prevUptime, statsRun, valuesRun, decodeRun>>

Snapshot(p, W) ==
    /\ At(p, "Read73")
    /\ RUnlock(p)
    /\ pass' = [pass EXCEPT ![p] =
                   [@ EXCEPT !.hasCommands = commands # {},
                             !.hasProcesses = Len(processes) > 0,
                             !.hasProfiles = DOMAIN profiles # {},
                             !.pc = IF commands # {} THEN "RLock82" ELSE "fetchCommands"]]
    /\ UNCHANGED <<url, cache, scrapes, prevUptime, statsRun, valuesRun, decodeRun>>

\* the keys fetchCommands collects from the answer to "which"
WhichCommands(resp) == {resp.Children[i].Value : i \in 1..Len(resp.Children)}

FetchCommands(p, W) ==
    /\ At(p, "fetchCommands")
    /\ \E r \in W.which :
          \E res \in {Command(r)} :
          LET l == [pass[p] EXCEPT !.issued = Append(@, "which"), !.err = res.err]
          IN  pass' = [pass EXCEPT ![p] =
                  CASE res.err = "panic" -> Panicked(l)
                    [] res.err = "error" -> [l EXCEPT !.pc = "RLock82"]
                    [] OTHER -> [l EXCEPT !.pc = "Lock134",
                                          !.cmds = WhichCommands(res.n)]]
    /\ UNCHANGED <<url, mu, cache, scrapes, prevUptime, statsRun, valuesRun, decodeRun>>

FetchCommandsLock(p, W) ==
    /\ At(p, "Lock134")
    /\ CanLock
    /\ Lock(p)
    /\ pass' = [pass EXCEPT ![p].pc = "Write135"]
    /\ UNCHANGED <<url, cache, scrapes, prevUptime, statsRun, valuesRun, decodeRun>>

FetchCommandsStore(p, W) ==
    /\ At(p, "Write135")
    /\ commands' = pass[p].cmds
    /\ Unlock(p)
    /\ pass' = [pass EXCEPT ![p] = [@ EXCEPT !.pc = "RLock82", !.cmds = {}]]
    /\ UNCHANGED <<url, processes, profiles, lastUptime, scrapes, prevUptime, statsRun, valuesRun, decodeRun>>

AvailabilityRLock(p, W) ==
    /\ At(p, "RLock82")
    /\ CanRLock
    /\ RLock(p)
    /\ pass' = [pass EXCEPT ![p].pc = "Read83"]
    /\ UNCHANGED <<url, cache, scrapes, prevUptime, statsRun, valuesRun, decodeRun>>

\* where Collect goes after collectStats returns: into collectDialogProfiles
\* (with update = !hasProfiles) or on to the restart check
AfterStats(l) ==
    IF l.hasProfilesCommand
    THEN (IF l.hasProfiles THEN "RLock228" ELSE "list_all_profiles")
    ELSE "RLock96"

\* where Collect goes after collectProcessInfo returns
AfterProcessInfo(l) ==
    IF l.hasStatisticsCommand THEN "collectStats" ELSE AfterStats(l)

\* collectProcessInfo called with update = true whatever the snapshot held
AvailabilityAlwaysUpdating(p, W) ==
    /\ At(p, "Read83")
    /\ RUnlock(p)
    /\ pass' = [pass EXCEPT ![p] =
                   [@ EXCEPT !.hasStatisticsCommand = "get_statistics" \in commands,
                             !.hasProfilesCommand = "list_all_profiles" \in commands,
                             !.pc = "ps"]]
    /\ UNCHANGED <<url, cache, scrapes, prevUptime, statsRun, valuesRun, decodeRun>>

Availability(p, W) ==
    /\ At(p, "Read83")
    /\ RUnlock(p)
    /\ pass' = [pass EXCEPT ![p] =
                   [@ EXCEPT !.hasStatisticsCommand = "get_statistics" \in commands,
                             !.hasProfilesCommand = "list_all_profiles" \in commands,
                             !.pc = IF pass[p].hasProcesses THEN "RLock157" ELSE "ps"]]
    /\ UNCHANGED <<url, cache, scrapes, prevUptime, statsRun, valuesRun, decodeRun>>

\* the rows collectProcessInfo builds from the answer to "ps"
PsProcesses(resp) ==
    [i \in 1..Len(resp.Children) |->
        <<MapGet(resp.Children[i].Attrs, "ID"),
          TrimSpace(MapGet(resp.Children[i].Attrs, "Type"))>>]

ProcessInfoFetch(p, W) ==
    /\ At(p, "ps")
    /\ \E r \in W.ps :
          \E res \in {Command(r)} :
          LET l == [pass[p] EXCEPT !.issued = Append(@, "ps"), !.err = res.err]
          IN  pass' = [pass EXCEPT ![p] =
                  CASE res.err = "panic" -> Panicked(l)
                    [] res.err = "error" -> [l EXCEPT !.pc = AfterProcessInfo(l)]
                    [] OTHER -> [l EXCEPT !.pc = "Lock152",
                                          !.processes = PsProcesses(res.n)]]
    /\ UNCHANGED <<url, mu, cache, scrapes, prevUptime, statsRun, valuesRun, decodeRun>>

ProcessInfoLock(p, W) ==
    /\ At(p, "Lock152")
    /\ CanLock
    /\ Lock(p)
    /\ pass' = [pass EXCEPT ![p].pc = "Write153"]
    /\ UNCHANGED <<url, cache, scrapes, prevUptime, statsRun, valuesRun, decodeRun>>

ProcessInfoStore(p, W) ==
    /\ At(p, "Write153")
    /\ processes' = pass[p].processes
    /\ Unlock(p)
    /\ pass' = [pass EXCEPT ![p] = [@ EXCEPT !.pc = "RLock157", !.processes = <<>>]]
    /\ UNCHANGED <<url, commands, profiles, lastUptime, scrapes, prevUptime, statsRun, valuesRun, decodeRun>>

ProcessInfoRLock(p, W) ==
    /\ At(p, "RLock157")
    /\ CanRLock
    /\ RLock(p)
    /\ pass' = [pass EXCEPT ![p].pc = "range160"]
    /\ UNCHANGED <<url, cache, scrapes, prevUptime, statsRun, valuesRun, decodeRun>>

ProcessInfoEmit(p, W) ==
    /\ At(p, "range160")
    /\ RUnlock(p)
    /\ pass' = [pass EXCEPT ![p] =
                   [@ EXCEPT !.ch = @ \o [i \in 1..Len(processes) |->
                                            Metric(processInfoDesc, "gauge", 1, processes[i])],
                             !.pc = AfterProcessInfo(pass[p])]]
    /\ UNCHANGED <<url, cache, scrapes, prevUptime, statsRun, valuesRun, decodeRun>>

CollectStats(p, W) ==
    /\ At(p, "collectStats")
    /\ \E r \in W.statistics :
          \E res \in {Command(r)} :
          LET l == [pass[p] EXCEPT !.issued = Append(@, "get_statistics"), !.err = res.err]
          IN  CASE res.err = "panic" -> pass' = [pass EXCEPT ![p] = Panicked(l)]
                [] res.err = "error" ->
                      pass' = [pass EXCEPT ![p] = [l EXCEPT !.pc = AfterStats(l)]]
                [] OTHER ->
                      \E order \in Orders(DOMAIN res.n.ChildValues) :
                         LET out == StatsLoop(res.n.ChildValues, order, 1,
                                              [sent |-> <<>>, uptime |-> 0])
                         IN  pass' = [pass EXCEPT ![p] =
                                         [l EXCEPT !.pc = AfterStats(l),
                                                   !.uptime = out.uptime,
                                                   !.ch = @ \o out.sent]]
    /\ UNCHANGED <<url, mu, cache, scrapes, prevUptime, statsRun, valuesRun, decodeRun>>

\* the map collectDialogProfiles builds from the answer to "list_all_profiles"
ListedProfiles(resp) ==
    [profile \in DOMAIN resp.ChildValues |-> resp.ChildValues[profile] # "0"]

DialogProfilesFetch(p, W) ==
    /\ At(p, "list_all_profiles")
    /\ \E r \in W.profiles :
          \E res \in {Command(r)} :
          LET l == [pass[p] EXCEPT !.issued = Append(@, "list_all_profiles"), !.err = res.err]
          IN  pass' = [pass EXCEPT ![p] =
                  CASE res.err = "panic" -> Panicked(l)
                    [] res.err = "error" -> [l EXCEPT !.pc = "RLock96"]
                    [] OTHER -> [l EXCEPT !.pc = "Lock223",
                                          !.profiles = ListedProfiles(res.n)]]
    /\ UNCHANGED <<url, mu, cache, scrapes, prevUptime, statsRun, valuesRun, decodeRun>>

DialogProfilesLock(p, W) ==
    /\ At(p, "Lock223")
    /\ CanLock
    /\ Lock(p)
    /\ pass' = [pass EXCEPT ![p].pc = "Write224"]
    /\ UNCHANGED <<url, cache, scrapes, prevUptime, statsRun, valuesRun, decodeRun>>

DialogProfilesStore(p, W) ==
    /\ At(p, "Write224")
    /\ profiles' = pass[p].profiles
    /\ Unlock(p)
    /\ pass' = [pass EXCEPT ![p] = [@ EXCEPT !.pc = "RLock228", !.profiles = EmptyMap]]
    /\ UNCHANGED <<url, commands, processes, lastUptime, scrapes, prevUptime, statsRun, valuesRun, decodeRun>>

\* the read lock is held until collectDialogProfiles returns; the range
\* statement visits the keys of the map it finds in ose.profiles
DialogProfilesRLock(p, W) ==
    /\ At(p, "RLock228")
    /\ CanRLock
    /\ RLock(p)
    /\ pass' = [pass EXCEPT ![p] = [@ EXCEPT !.pc = "range231", !.todo = DOMAIN profiles]]
    /\ UNCHANGED <<url, cache, scrapes, prevUptime, statsRun, valuesRun, decodeRun>>

\* the inner loop labelling with the first pair only (FindStringSubmatch in
\* place of FindAllStringSubmatch)
ProfileValueMetricFirstPair(profile, node) ==
    LET count == ParseFloat(MapGet(node.Attrs, "count"))
        first == ReFind(profileValuesRegexp, node.Value, 1)
    IN  IF count.err THEN <<>>
        ELSE IF first.ok
        THEN <<Metric(NewDesc(BuildFQName(namespace, "dialog", "profiles_with_values_count"),
                              <<"profile", first.caps[1]>>),
                      "gauge", count.v, <<profile, first.caps[2]>>)>>
        ELSE <<Metric(profilesValuesInfoDesc, "gauge", count.v, <<profile, node.Value>>)>>

\* what the inner loop sends for one node of the answer to profile_get_values
ProfileValueMetric(profile, node) ==
    LET count == ParseFloat(MapGet(node.Attrs, "count"))
        matches == ReFindAll(profileValuesRegexp, node.Value, 1)
    IN  IF count.err THEN <<>>
        ELSE IF matches # <<>>
        THEN <<Metric(NewDesc(BuildFQName(namespace, "dialog", "profiles_with_values_count"),
                              <<"profile">> \o [i \in 1..Len(matches) |-> matches[i][1]]),
                      "gauge", count.v,
                      <<profile>> \o [i \in 1..Len(matches) |-> matches[i][2]])>>
        ELSE <<Metric(profilesValuesInfoDesc, "gauge", count.v, <<profile, node.Value>>)>>

RECURSIVE ProfileValueMetrics(_, _, _)
ProfileValueMetrics(profile, children, i) ==
    IF i > Len(children) THEN <<>>
    ELSE ProfileValueMetric(profile, children[i])
            \o ProfileValueMetrics(profile, children, i + 1)

\* one iteration of the loop over ose.profiles
DialogProfilesNext(p, W) ==
    /\ At(p, "range231")
    /\ \E profile \in pass[p].todo :
          LET l0 == [pass[p] EXCEPT !.todo = @ \ {profile}]
          IN  IF ~profiles[profile]
              THEN pass' = [pass EXCEPT ![p] = l0] /\ UNCHANGED mu
              ELSE \E r \in W.profileValues :
                      \E res \in {Command(r)} :
                      LET l == [l0 EXCEPT !.issued = Append(@, "profile_get_values"), !.err = res.err]
                      IN  CASE res.err = "panic" ->
                                  \* the deferred RUnlock runs while unwinding
                                  /\ pass' = [pass EXCEPT ![p] = [Panicked(l) EXCEPT !.todo = {}]]
                                  /\ RUnlock(p)
                            [] res.err = "error" ->
                                  pass' = [pass EXCEPT ![p] = l] /\ UNCHANGED mu
                            [] OTHER ->
                                  /\ pass' = [pass EXCEPT ![p] =
                                        [l EXCEPT !.ch = @ \o ProfileValueMetrics(
                                                           profile, res.n.Children, 1)]]
                                  /\ UNCHANGED mu
    /\ UNCHANGED <<url, cache, scrapes, prevUptime, statsRun, valuesRun, decodeRun>>

\* collectDialogProfiles returning without its deferred RUnlock
DialogProfilesReturnHoldingLock(p, W) ==
    /\ At(p, "range231")
    /\ pass[p].todo = {}
    /\ pass' = [pass EXCEPT ![p].pc = "RLock96"]
    /\ UNCHANGED <<url, mu, cache, scrapes, prevUptime, statsRun, valuesRun, decodeRun>>

DialogProfilesReturn(p, W) ==
    /\ At(p, "range231")
    /\ pass[p].todo = {}
    /\ RUnlock(p)
    /\ pass' = [pass EXCEPT ![p].pc = "RLock96"]
    /\ UNCHANGED <<url, cache, scrapes, prevUptime, statsRun, valuesRun, decodeRun>>

RestartRLock(p, W) ==
    /\ At(p, "RLock96")
    /\ CanRLock
    /\ RLock(p)
    /\ pass' = [pass EXCEPT ![p].pc = "Read97"]
    /\ UNCHANGED <<url, cache, scrapes, prevUptime, statsRun, valuesRun, decodeRun>>

\* the comparison with <= in place of <
IsRestartOrEqual(uptime, last) == uptime <= last

\* restart := uptime < ose.lastUptime
IsRestart(uptime, last) == uptime < last

RestartCheck(p, W) ==
    /\ At(p, "Read97")
    /\ RUnlock(p)
    /\ pass' = [pass EXCEPT ![p] =
                   [@ EXCEPT !.restart = IsRestart(pass[p].uptime, lastUptime),
                             !.pc = IF IsRestart(pass[p].uptime, lastUptime)
                                    THEN "Lock101" ELSE "deferred"]]
    /\ UNCHANGED <<url, cache, scrapes, prevUptime, statsRun, valuesRun, decodeRun>>

\* the invalidation taking the lock without waiting for the readers
InvalidateLockShared(p, W) ==
    /\ At(p, "Lock101")
    /\ CanRLock
    /\ Lock(p)
    /\ pass' = [pass EXCEPT ![p].pc = "Write102"]
    /\ UNCHANGED <<url, cache, scrapes, prevUptime, statsRun, valuesRun, decodeRun>>

InvalidateLock(p, W) ==
    /\ At(p, "Lock101")
    /\ CanLock
    /\ Lock(p)
    /\ pass' = [pass EXCEPT ![p].pc = "Write102"]
    /\ UNCHANGED <<url, cache, scrapes, prevUptime, statsRun, valuesRun, decodeRun>>

InvalidateCommands(p, W) ==
    /\ At(p, "Write102")
    /\ commands' = {}
    /\ pass' = [pass EXCEPT ![p].pc = "Write103"]
    /\ UNCHANGED <<url, mu, processes, profiles, lastUptime, scrapes, prevUptime, statsRun, valuesRun, decodeRun>>

InvalidateProcesses(p, W) ==
    /\ At(p, "Write103")
    /\ processes' = <<>>
    /\ pass' = [pass EXCEPT ![p].pc = "Write104"]
    /\ UNCHANGED <<url, mu, commands, profiles, lastUptime, scrapes, prevUptime, statsRun, valuesRun, decodeRun>>

InvalidateProfiles(p, W) ==
    /\ At(p, "Write104")
    /\ profiles' = EmptyMap
    /\ pass' = [pass EXCEPT ![p].pc = "Write105"]
    /\ UNCHANGED <<url, mu, commands, processes, lastUptime, scrapes, prevUptime, statsRun, valuesRun, decodeRun>>

InvalidateLastUptime(p, W) ==
    /\ At(p, "Write105")
    /\ lastUptime' = pass[p].uptime
    /\ Unlock(p)
    /\ pass' = [pass EXCEPT ![p].pc = "deferred"]
    /\ UNCHANGED <<url, commands, processes, profiles, scrapes, prevUptime, statsRun, valuesRun, decodeRun>>

\* the deferred send of the up gauge; a panic then goes on to the caller
Deferred(p, W) ==
    /\ At(p, "deferred")
    /\ pass' = [pass EXCEPT ![p] =
                   [@ EXCEPT !.ch = Append(@, Metric(upDesc, "gauge", pass[p].up, <<>>)),
                             !.pc = IF pass[p].err = "panic" THEN "panicked" ELSE "done"]]
    /\ prevUptime' = pass[p].uptime
    /\ UNCHANGED <<url, mu, cache, scrapes, statsRun, valuesRun, decodeRun>>

\* a step of pass p against a monitored OpenSIPS answering from W
Step(p, W) ==
        \/ Start(p, W)
        \/ NewMIJsonClient(p, W)
        \/ CollectVersionInfo(p, W)
        \/ SnapshotRLock(p, W)
        \/ Snapshot(p, W)
        \/ FetchCommands(p, W)
        \/ FetchCommandsLock(p, W)
        \/ FetchCommandsStore(p, W)
        \/ AvailabilityRLock(p, W)
        \/ Availability(p, W)
        \/ ProcessInfoFetch(p, W)
        \/ ProcessInfoLock(p, W)
        \/ ProcessInfoStore(p, W)
        \/ ProcessInfoRLock(p, W)
        \/ ProcessInfoEmit(p, W)
        \/ CollectStats(p, W)
        \/ DialogProfilesFetch(p, W)
        \/ DialogProfilesLock(p, W)
        \/ DialogProfilesStore(p, W)
        \/ DialogProfilesRLock(p, W)
        \/ DialogProfilesNext(p, W)
        \/ DialogProfilesReturn(p, W)
        \/ RestartRLock(p, W)
        \/ RestartCheck(p, W)
        \/ InvalidateLock(p, W)
        \/ InvalidateCommands(p, W)
        \/ InvalidateProcesses(p, W)
        \/ InvalidateProfiles(p, W)
        \/ InvalidateLastUptime(p, W)
        \/ Deferred(p, W)

\* concurrent scrapes
Next == \E p \in Passes : Step(p, Answers)

Spec == Init /\ [][Next]_vars

\* one scrape after the other
NextSeq == Step(1, AllAnswers)

SpecSeq == Init /\ [][NextSeq]_vars

\* the statements at which a pass has called ose.mu.Lock() and waits for it
LockPcs == {"Lock134", "Lock152", "Lock223", "Lock101"}

\* sync.RWMutex: once a goroutine has called Lock, calls of RLock block until
\* that writer has acquired and released the lock
WriterWaiting == \E q \in Passes : pass[q].pc \in LockPcs

\* a step of pass p in which a new reader is not let in past a waiting writer
StepGo(p, W) ==
    /\ Step(p, W)
    /\ (p \in mu'.r /\ p \notin mu.r) => ~WriterWaiting

NextLive == \E p \in Passes : StepGo(p, Answers)

\* a started pass goes on: the goroutine is scheduled, its command calls
\* return and the samples it sends are received
Progress(p) == pass[p].pc \notin {"idle", "done"} /\ StepGo(p, Answers)

\* concurrent scrapes that are not held up for ever
SpecLive == Init /\ [][NextLive]_vars /\ \A p \in Passes : WF_vars(Progress(p))

(***************************************************************************)
(* The loop of collectStats, one entry of the dump at a time                *)
(***************************************************************************)

\* the entries a dump may hold
StatNames ==
    {"core:rcv_requests", "core:rcv requests", "core:timestamp",
     "core:totally_unknown_stat", "rcv_requests", "bogus:rcv_requests",
     "load:load", "load:load-all", "load:load-proc-3", "load:load-proc-x",
     "dialog:create_sent", "sl:2xx_replies", "sl:7xx_replies", "net:waiting_udp"}

StatValues == {"42", "-1", "4 2"}

\* the largest number of entries of a dump
MaxDump == 2

Dumps ==
    UNION {[K -> StatValues] : K \in {K \in SUBSET StatNames : Cardinality(K) <= MaxDump}}

InitStats ==
    /\ url = DefaultUrl
    /\ NewExporter
    /\ \E d \in Dumps :
          statsRun = [childValues |-> d, todo |-> DOMAIN d, ch |-> <<>>, uptime |-> 0]
    /\ valuesRun = NoValuesRun
    /\ decodeRun = NoDecodeRun

\* the range statement visits an entry not visited yet
StatsNext ==
    /\ \E statName \in statsRun.todo :
          LET e == StatEntry(statName, statsRun.childValues[statName])
          IN  statsRun' = [statsRun EXCEPT
                              !.todo = @ \ {statName},
                              !.ch = @ \o e.sent,
                              !.uptime = IF e.setsUptime THEN e.uptime ELSE @]
    /\ UNCHANGED <<url, mu, cache, pass, scrapes, prevUptime, valuesRun, decodeRun>>

SpecStats == InitStats /\ [][StatsNext]_vars

(***************************************************************************)
(* The inner loop of collectDialogProfiles, one node at a time             *)
(***************************************************************************)

\* the value payloads and the count attributes of the nodes of an answer
ProfilePayloads ==
    {"key1=a,key2=b", "plain", "k=v", "", "k=", "=v", "K=v", "x,k=v",
     "a=1,,b_2=x y", "a=1,b", "k=v=w", "a b=c"}

CountStrings == {"7", "-1", "many"}

ValueNodes ==
    {[MINode("") EXCEPT !.Value = v, !.Attrs = MapSet(EmptyMap, "count", c)] :
        v \in ProfilePayloads, c \in CountStrings}
    \cup {[MINode("") EXCEPT !.Value = "k=v"]}

\* the largest number of nodes of an answer
MaxNodes == 2

ValueNodeLists ==
    UNION {[1..n -> ValueNodes] : n \in 0..MaxNodes}

InitValues ==
    /\ url = DefaultUrl
    /\ NewExporter
    /\ statsRun = NoStatsRun
    /\ decodeRun = NoDecodeRun
    /\ \E children \in ValueNodeLists :
          valuesRun = [profile |-> "caller", children |-> children, i |-> 1, ch |-> <<>>]

\* one iteration of the loop over getResp.Children
ValuesNext ==
    /\ valuesRun.i <= Len(valuesRun.children)
    /\ valuesRun' = [valuesRun EXCEPT
                        !.i = @ + 1,
                        !.ch = @ \o ProfileValueMetric(valuesRun.profile,
                                                       valuesRun.children[valuesRun.i])]
    /\ UNCHANGED <<url, mu, cache, pass, scrapes, prevUptime, statsRun, decodeRun>>

SpecValues == InitValues /\ [][ValuesNext]_vars

(***************************************************************************)
(* One call of fromJson on a fresh node                                    *)
(***************************************************************************)

NamedNode(name, value) ==
    JMap(<< <<"name", JStr(name)>>, <<"value", JStr(value)>> >>)

\* what a key of a decoded JSON object may hold
DecodeValues ==
    {JStr("v"), JNum,
     JList(<<>>),
     JList(<<ValueNode("v"), ValueNode("w")>>),
     JList(<<NamedNode("a", "v"), NamedNode("a", "w")>>),
     JList(<<JNum>>),
     JMap(<< <<"a", JStr("v")>>, <<"b", JStr("w")>> >>),
     JMap(<< <<"a", JStr("v")>>, <<"b", NamedNode("a", "w")>> >>),
     JMap(<< <<"b", NamedNode("a", "w")>>, <<"a", JStr("v")>> >>),
     JMap(<< <<"a", JNum>> >>),
     JMap(<< <<"a", JList(<<ValueNode("v")>>)>> >>),
     JMap(<< <<"a", JMap(<< <<"children", JMap(<< <<"c", JStr("v")>> >>)>> >>)>> >>)}

DecodeKeys == {"name", "value", "attributes", "children", "x", "y"}

\* the largest number of keys of the object handed to fromJson
MaxKeys == 2

\* the objects of n keys, in every order a range statement may visit them
ObjectsOf(n) ==
    {m \in [1..n -> DecodeKeys \X DecodeValues] :
        \A i, j \in 1..n : i # j => m[i][1] # m[j][1]}

DecodeInputs ==
    DecodeValues \cup {JMap(m) : m \in UNION {ObjectsOf(n) : n \in 0..MaxKeys}}

InitDecode ==
    /\ url = DefaultUrl
    /\ NewExporter
    /\ statsRun = NoStatsRun
    /\ valuesRun = NoValuesRun
    /\ \E value \in DecodeInputs :
          decodeRun = [value |-> value, returned |-> FALSE, r |-> Ok(MINode(""))]

\* node := &MINode{}; err = node.fromJson(value)
Decode ==
    /\ ~decodeRun.returned
    /\ decodeRun' = [decodeRun EXCEPT !.returned = TRUE,
                                      !.r = fromJson(MINode(""), decodeRun.value)]
    /\ UNCHANGED <<url, mu, cache, pass, scrapes, prevUptime, statsRun, valuesRun>>

SpecDecode == InitDecode /\ [][Decode]_vars

(***************************************************************************)
(* Properties                                                              *)
(***************************************************************************)

Cache3 == <<commands, processes, profiles>>

\* pass p issues command c in this step
Issues(p, c) == pass'[p].issued = Append(pass[p].issued, c)

\* pass p leaves the statement labelled pc in this step
Leaves(p, label) == pass[p].pc = label /\ pass'[p].pc # label

\* C1: of two consecutive passes that both fetched the statistics, when the
\* second's reference uptime is strictly less than the first's, the second
\* finishes with commands, processes and profiles cleared and lastUptime
\* reset to its uptime.  (A pass that saw no core:timestamp has uptime 0.)
CE_C1_RestartClearsCache ==
    \A p \in Passes :
        (/\ pass[p].pc = "done"
         /\ pass[p].before # 0
         /\ pass[p].uptime # 0
         /\ pass[p].uptime < pass[p].before)
        => (/\ commands = {}
            /\ processes = <<>>
            /\ profiles = EmptyMap
            /\ lastUptime = pass[p].uptime)

\* C2: when a pass that observed a reference uptime u finishes, lastUptime
\* equals u.
CE_C2_LastUptimeIsLastObserved ==
    \A p \in Passes :
        (pass[p].pc = "done" /\ pass[p].uptime # 0) => lastUptime = pass[p].uptime

\* C3: a pass whose reference uptime is greater than or equal to lastUptime
\* when it compares them goes straight to its end, and neither the
\* comparison nor the end of the pass changes commands, processes, profiles.
C3_NoRestartKeepsCache ==
    [][\A p \in Passes :
          /\ (Leaves(p, "Read97") /\ pass[p].uptime >= lastUptime)
                => (pass'[p].pc = "deferred" /\ UNCHANGED Cache3)
          /\ Leaves(p, "deferred") => UNCHANGED Cache3]_vars

W_C3_NoRestart ==
    \E p \in Passes :
        /\ pass[p].pc = "deferred"
        /\ pass[p].up = 1
        /\ pass[p].err = "nil"
        /\ ~pass[p].restart
        /\ pass[p].uptime = 1
        /\ pass[p].uptime >= lastUptime
        /\ commands # {}
        /\ processes # <<>>
        /\ DOMAIN profiles # {}

\* the liveness probe of pass p failed: NewMIJsonClient or the version
\* command did not return normally, and nothing was called since
ProbeFailed(p) ==
    pass[p].err # "nil" /\ pass[p].issued \in {<<>>, <<"version">>}

\* C4: a pass whose liveness probe failed has up = 0, is at its end, has
\* sent nothing but the up sample with value 0, and from the failure on
\* issues no command and changes no cache field.
C4_ProbeFailureStopsPass ==
    /\ [](\A p \in Passes :
            ProbeFailed(p) =>
                /\ pass[p].up = 0
                /\ pass[p].pc \in {"deferred", "done", "panicked"}
                /\ pass[p].ch = IF pass[p].pc = "deferred" THEN <<>>
                                ELSE <<Metric(upDesc, "gauge", 0, <<>>)>>)
    /\ [][\A p \in Passes :
            (ProbeFailed(p) /\ pass[p].pc = "deferred" /\ pass'[p] # pass[p])
                => (/\ UNCHANGED cache
                    /\ pass'[p].issued = pass[p].issued
                    /\ pass'[p].pc \in {"done", "panicked"})]_vars

W_C4_ProbeFailed ==
    \E p \in Passes :
        /\ pass[p].pc = "done"
        /\ pass[p].err = "error"
        /\ pass[p].issued = <<"version">>
        /\ pass[p].ch = <<Metric(upDesc, "gauge", 0, <<>>)>>

\* C5: no call of NewMIJsonClient or Command of any pass panics: every pass
\* runs to its end without raising.
CE_C5_NoPanic ==
    \A p \in Passes : pass[p].err # "panic" /\ pass[p].pc # "panicked"

OptionalCommands ==
    {"ps", "get_statistics", "list_all_profiles", "profile_get_values"}

\* the statements of a pass that send the metrics of a command's feature
FeatureSends(c) ==
    CASE c = "ps" -> {"RLock157", "range160"}
      [] c = "list_all_profiles" -> {"RLock228", "range231"}
      [] OTHER -> {}

\* C6: when an optional command fails, the step sends nothing, changes no
\* cache field, and the pass goes on with up = 1 to its next step, which is
\* not one that sends metrics of the failed feature.
CE_C6_FeatureFailureIsRecoverable ==
    [][\A p \in Passes : \A c \in OptionalCommands :
          (Issues(p, c) /\ pass'[p].err # "nil")
              => (/\ pass'[p].ch = pass[p].ch
                  /\ UNCHANGED cache
                  /\ pass'[p].up = 1
                  /\ pass'[p].pc \notin {"deferred", "done", "panicked"} \cup FeatureSends(c))]_vars

\* C7: a pass issues which exactly when it read an empty command set; when
\* which succeeds the pass stores exactly the names returned; when it fails
\* the command set is left as it is and the pass goes on.
CE_C7_CommandProbe ==
    [][\A p \in Passes :
          /\ Leaves(p, "Read73") => (pass'[p].pc = "fetchCommands" <=> commands = {})
          /\ Issues(p, "which") => pass[p].pc = "fetchCommands"
          /\ Leaves(p, "fetchCommands") => Issues(p, "which")
          /\ (Issues(p, "which") /\ pass'[p].err = "nil") => pass'[p].pc = "Lock134"
          /\ Leaves(p, "Write135") => commands' = pass[p].cmds
          /\ (Issues(p, "which") /\ pass'[p].err # "nil")
                => (UNCHANGED commands /\ pass'[p].pc = "RLock82")]_vars

\* the statements that write a cache field, that read the cache, and that
\* run between the first and the last write of an invalidation
WritePcs == {"Write135", "Write153", "Write224",
             "Write102", "Write103", "Write104", "Write105"}
ReadPcs == {"Read73", "Read83", "range160", "range231", "Read97"}
RLockPcs == {"RLock72", "RLock82", "RLock157", "RLock228", "RLock96"}

\* C8: while a pass is about to write a cache field or is between the four
\* writes of an invalidation, no other pass is in a section that reads the
\* cache or in a section that writes it.
C8_InvalidationIsAtomic ==
    \A p, q \in Passes :
        (p # q /\ pass[p].pc \in WritePcs) => pass[q].pc \notin ReadPcs \cup WritePcs

W_C8_ReaderWaitsForInvalidation ==
    \E p, q \in Passes :
        /\ p # q
        /\ pass[p].pc = "Write104"
        /\ pass[q].pc \in RLockPcs
        /\ commands = {}
        /\ DOMAIN profiles # {}

\* a definition of the catalog matches a flat metric name
DefMatches(stat, metric) ==
    IF stat.regexp # NilRegexp
    THEN FindStringSubmatch(stat.regexp, metric) # <<>>
    ELSE metric = stat.stat

\* the subsystem and the flat name of an entry that has a separator
SubsysOf(statName) == SubSeq(statName, 1, Index(statName, ":") - 1)
FlatNameOf(statName) ==
    ReplaceAll(SubSeq(statName, Index(statName, ":") + 1, Len(statName)), " ", "_")

\* the entries C9 lists as dropped
Dropped(statName, statValue) ==
    \/ Index(statName, ":") = 0
    \/ ParseFloat(statValue).err
    \/ SubsysOf(statName) \notin Subsystems
    \/ \A i \in 1..Len(opensipsStats[SubsysOf(statName)]) :
          ~DefMatches(opensipsStats[SubsysOf(statName)][i], FlatNameOf(statName))

KeptEntries(cv) == {k \in DOMAIN cv : ~Dropped(k, cv[k])}

\* C9: visiting a dropped entry sends nothing and the loop goes on; when the
\* loop ends, what was sent is what the loop sends, in some order of visit,
\* for the dump without its dropped entries, one sample for each entry kept.
C9_SkipAndContinue ==
    /\ [][\A k \in statsRun.todo :
            (statsRun'.todo = statsRun.todo \ {k}
               /\ Dropped(k, statsRun.childValues[k]))
                => statsRun'.ch = statsRun.ch]_vars
    /\ [](statsRun.todo = {} =>
            LET kept == KeptEntries(statsRun.childValues)
                cv == [k \in kept |-> statsRun.childValues[k]]
            IN  /\ Len(statsRun.ch) = Cardinality(kept)
                /\ \E order \in Orders(kept) :
                      statsRun.ch = StatsLoop(cv, order, 1,
                                              [sent |-> <<>>, uptime |-> 0]).sent)

W_C9_DroppedAndKept ==
    /\ statsRun.todo = {}
    /\ DOMAIN statsRun.childValues = {"core:totally_unknown_stat", "core:rcv_requests"}
    /\ statsRun.childValues["core:rcv_requests"] = "42"
    /\ Len(statsRun.ch) = 1

\* what C10 expects an entry to send: nothing when it has no separator, no
\* numeric value, an unknown subsystem or no matching definition; else one
\* sample of the first matching definition of its subsystem, labelled with
\* the captured group of a pattern and with nothing for a literal
Expected(statName, statValue) ==
    IF Dropped(statName, statValue) THEN <<>>
    ELSE LET subsys == SubsysOf(statName)
             stats == opensipsStats[subsys]
             metric == FlatNameOf(statName)
             first == CHOOSE i \in 1..Len(stats) :
                         /\ DefMatches(stats[i], metric)
                         /\ \A j \in 1..(i - 1) : ~DefMatches(stats[j], metric)
             re == stats[first].regexp
         IN  <<[desc |-> [fqName |-> namespace \o "_" \o subsys \o "_" \o stats[first].name,
                          labels |-> IF re = NilRegexp THEN <<>> ELSE <<re.group>>],
                valueType |-> stats[first].value,
                value |-> ParseFloat(statValue).v,
                labelValues |-> IF re = NilRegexp THEN <<>>
                                ELSE <<SubSeq(metric, Len(re.pre) + 1,
                                              Len(metric) - Len(re.suf))>>]>>

\* C10: every entry visited sends at most one sample, the one of the first
\* definition of its subsystem, in catalog order, that matches its flat name.
C10_FirstMatchWins ==
    [][\A k \in statsRun.todo :
          statsRun'.todo = statsRun.todo \ {k}
              => /\ statsRun'.ch = statsRun.ch \o Expected(k, statsRun.childValues[k])
                 /\ Len(statsRun'.ch) <= Len(statsRun.ch) + 1]_vars

W_C10_LiteralAndPattern ==
    /\ statsRun.todo = {}
    /\ \E i \in 1..Len(statsRun.ch) :
          statsRun.ch[i] =
              [desc |-> [fqName |-> "opensips_core_received_requests_total",
                         labels |-> <<>>],
               valueType |-> "counter", value |-> 42, labelValues |-> <<>>]
    /\ \E i \in 1..Len(statsRun.ch) :
          /\ statsRun.ch[i].desc.fqName = "opensips_load_process_load"
          /\ statsRun.ch[i].valueType = "gauge"
          /\ statsRun.ch[i].desc.labels = <<"id">>
          /\ statsRun.ch[i].labelValues = <<"3">>

\* the segments of a payload between its commas
RECURSIVE CommaSegments(_)
CommaSegments(s) ==
    IF Index(s, ",") = 0 THEN <<s>>
    ELSE <<SubSeq(s, 1, Index(s, ",") - 1)>>
            \o CommaSegments(SubSeq(s, Index(s, ",") + 1, Len(s)))

\* a segment that reads key=value, the key made of a-z, 0-9 and _
IsPair(seg) ==
    /\ Index(seg, "=") > 1
    /\ AllIn(SubSeq(seg, 1, Index(seg, "=") - 1), LowerAlnum \cup {"_"})

\* the <<key, value>> pairs of a payload, in payload order
PayloadPairs(s) ==
    LET segs == SelectSeq(CommaSegments(s), IsPair)
    IN  [j \in 1..Len(segs) |->
            <<SubSeq(segs[j], 1, Index(segs[j], "=") - 1),
              SubSeq(segs[j], Index(segs[j], "=") + 1, Len(segs[j]))>>]

\* the one sample C11 expects for a node whose count parses
ExpectedValueMetric(profile, node) ==
    LET pairs == PayloadPairs(node.Value)
        count == ParseFloat(MapGet(node.Attrs, "count")).v
    IN  IF pairs # <<>>
        THEN [desc |-> [fqName |-> "opensips_dialog_profiles_with_values_count",
                        labels |-> <<"profile">> \o [j \in 1..Len(pairs) |-> pairs[j][1]]],
              valueType |-> "gauge", value |-> count,
              labelValues |-> <<profile>> \o [j \in 1..Len(pairs) |-> pairs[j][2]]]
        ELSE [desc |-> [fqName |-> "opensips_dialog_profiles_with_values_count",
                        labels |-> <<"profile", "value">>],
              valueType |-> "gauge", value |-> count,
              labelValues |-> <<profile, node.Value>>]

ExplicitKeys == {"name", "value", "attributes", "children"}

HasExplicitKey(m) == \E i \in 1..Len(m) : m[i][1] \in ExplicitKeys

IsWrappedArray(m) == ~HasExplicitKey(m) /\ Len(m) = 1 /\ m[1][2].t = "list"

ListsOf(value) ==
    IF value.t = "list" THEN {value.l}
    ELSE IF value.t # "map" THEN {}
    ELSE IF KeyIs(value.m, "children", "list") THEN {Lookup(value.m, "children").l}
    ELSE IF IsWrappedArray(value.m) THEN {value.m[1][2].l}
    ELSE {}

\* the value of the last node of a list of nodes that carries a name
LastValueOf(nodes, name) ==
    nodes[CHOOSE i \in 1..Len(nodes) :
             /\ nodes[i].Name = name
             /\ \A j \in (i + 1)..Len(nodes) : nodes[j].Name # name].Value

\* C12: a list whose elements all decode is decoded successfully, wherever
\* it stands (the value handed to the decoder, the children list of an
\* explicit node, the list of a wrapped array): the children are the decoded
\* elements in list order, and childValues maps every non-empty child name
\* to the value of the last child of that name.
CE_C12_ListDecoding ==
    decodeRun.returned =>
        \A l \in ListsOf(decodeRun.value) :
            (\A i \in 1..Len(l) : fromJson(MINode(""), l[i]).err = "nil")
            => LET nodes == [i \in 1..Len(l) |-> fromJson(MINode(""), l[i]).n]
                   names == {nodes[i].Name : i \in 1..Len(l)} \ {""}
               IN  /\ decodeRun.r.err = "nil"
                   /\ decodeRun.r.n.Children = nodes
                   /\ decodeRun.r.n.ChildValues =
                          [name \in names |-> LastValueOf(nodes, name)]

IsImplicitMap(value) ==
    /\ value.t = "map"
    /\ ~HasExplicitKey(value.m)
    /\ ~IsWrappedArray(value.m)

\* C13: an object that is neither an explicit node nor a wrapped array
\* decodes to one child for each of its keys, in order, a string value
\* giving a (name, value) leaf; the decode returns an error when a value is
\* neither a string, an object nor a list.
CE_C13_ImplicitMapDecoding ==
    (decodeRun.returned /\ IsImplicitMap(decodeRun.value)) =>
        LET m == decodeRun.value.m
            r == decodeRun.r
        IN  /\ (\E i \in 1..Len(m) : m[i][2].t \notin {"string", "map", "list"})
                  => r.err = "error"
            /\ r.err = "nil" =>
                  /\ Len(r.n.Children) = Len(m)
                  /\ \A i \in 1..Len(m) :
                        m[i][2].t = "string" =>
                            /\ r.n.Children[i].Name = m[i][1]
                            /\ r.n.Children[i].Value = m[i][2].s

\* C14: an object carrying name, value, attributes or children decodes as
\* an explicit node, whatever these keys hold: it takes no name and no
\* child from its other keys; an object without these keys whose only key
\* holds a list decodes as an array named by that key; any other object
\* decodes as an implicit map, a nameless node whose children are named by
\* its keys.
CE_C14_ShapePrecedence ==
    (decodeRun.returned /\ decodeRun.value.t = "map" /\ decodeRun.r.err = "nil") =>
        LET m == decodeRun.value.m
            n == decodeRun.r.n
        IN  /\ HasExplicitKey(m) =>
                  /\ n.Name = IF KeyIs(m, "name", "string")
                              THEN Lookup(m, "name").s ELSE ""
                  /\ ~HasKey(m, "children") => n.Children = <<>>
            /\ IsWrappedArray(m) =>
                  /\ n.Name = m[1][1]
                  /\ Len(n.Children) = Len(m[1][2].l)
            /\ IsImplicitMap(decodeRun.value) =>
                  /\ n.Name = ""
                  /\ \A i \in 1..Len(n.Children) : HasKey(m, n.Children[i].Name)

RECURSIVE ChildValuesAgree(_)
\* every key of the childValues of n, and of every node below n, is the name
\* of a child whose value is the one recorded
ChildValuesAgree(n) ==
    /\ \A k \in DOMAIN n.ChildValues :
          \E i \in 1..Len(n.Children) :
             /\ n.Children[i].Name = k
             /\ n.Children[i].Value = n.ChildValues[k]
    /\ \A i \in 1..Len(n.Children) : ChildValuesAgree(n.Children[i])

\* C15: in the tree a successful decode returns, at every depth, every key
\* of a node's childValues is the name of one of its children, and the value
\* recorded under a name is the value of a child of that name.
C15_ChildValuesAgree ==
    (decodeRun.returned /\ decodeRun.r.err = "nil") => ChildValuesAgree(decodeRun.r.n)

W_C15_RenamedChild ==
    /\ decodeRun.returned
    /\ decodeRun.r.err = "nil"
    /\ Len(decodeRun.r.n.Children) = 2
    /\ decodeRun.r.n.Children[1].Name = "a"
    /\ decodeRun.r.n.Children[2].Name = "a"
    /\ HasKey(Lookup(decodeRun.value.m, "children").m, "b")
    /\ DOMAIN decodeRun.r.n.ChildValues = {"a"}
    /\ decodeRun.r.n.ChildValues["a"] = "w"

\* pass p fetched the statistics and the dump gave it a reference uptime
ObservedUptime(p) ==
    /\ \E i \in 1..Len(pass[p].issued) : pass[p].issued[i] = "get_statistics"
    /\ pass[p].uptime # 0

\* a cache field that held something holds nothing after this step
ClearsCache ==
    \/ commands # {} /\ commands' = {}
    \/ processes # <<>> /\ processes' = <<>>
    \/ DOMAIN profiles # {} /\ DOMAIN profiles' = {}

\* C16: a step that empties commands, processes or profiles is a write of
\* the invalidation of a pass that observed an uptime and found it strictly
\* less than lastUptime; a pass that observed no uptime goes from its
\* restart check to its end, and only a pass that observed one starts an
\* invalidation.
C16_SoleInvalidationTrigger ==
    [][/\ ClearsCache =>
            \E p \in Passes :
                /\ pass[p].pc \in {"Write102", "Write103", "Write104"}
                /\ pass'[p].pc # pass[p].pc
                /\ pass[p].restart
                /\ ObservedUptime(p)
                /\ pass[p].uptime < lastUptime
       /\ \A p \in Passes :
            /\ (Leaves(p, "Read97") /\ ~ObservedUptime(p)) => pass'[p].pc = "deferred"
            /\ (Leaves(p, "Read97") /\ pass'[p].pc = "Lock101")
                  => (ObservedUptime(p) /\ pass[p].uptime < lastUptime)]_vars

W_C16_RestartClears ==
    \E p \in Passes :
        /\ pass[p].pc = "Write103"
        /\ pass[p].restart
        /\ pass[p].uptime = -1
        /\ commands = {}
        /\ processes # <<>>
        /\ DOMAIN profiles # {}

\* the rows the answers to ps of the model hold: the ID and the Type, without
\* the spaces around it, of each process in the order of the answer
PsRows ==
    {<<>>, << <<"1", "attendant">> >>, << <<"1", "attendant">>, <<"2", "MI FIFO">> >>}

IsProcessRow(m) == m.desc.fqName = "opensips_process_info"

ProcessRow(proc) ==
    [desc |-> [fqName |-> "opensips_process_info", labels |-> <<"id", "type">>],
     valueType |-> "gauge", value |-> 1, labelValues |-> proc]

PatternDefs ==
    {d \in UNION {{<<subsys, i>> : i \in 1..Len(opensipsStats[subsys])} :
                     subsys \in Subsystems} :
        opensipsStats[d[1]][d[2]].regexp # NilRegexp}

\* the capture groups of a pattern of the catalog: each is written with one
\* group, (?P<group>class)
NumSubexp(re) == IF re = NilRegexp THEN 0 ELSE 1

\* the entries of the dump the loop has visited
Visited == DOMAIN statsRun.childValues \ statsRun.todo

\* C18: the descriptor of every definition with a pattern declares as many
\* label names as the pattern has capture groups, the names of the groups in
\* order; every sample sent for such a definition carries as many label
\* values, the i-th being the text the i-th group captured in the flat
\* name of a visited entry.
C18_LabelsMatchGroups ==
    /\ \A d \in PatternDefs :
          LET re == opensipsStats[d[1]][d[2]].regexp
          IN  /\ Len(StatDesc(d[1], d[2]).labels) = NumSubexp(re)
              /\ StatDesc(d[1], d[2]).labels = <<re.group>>
    /\ \A k \in 1..Len(statsRun.ch) :
          \A d \in PatternDefs :
              statsRun.ch[k].desc = StatDesc(d[1], d[2]) =>
                  /\ Len(statsRun.ch[k].labelValues) = Len(statsRun.ch[k].desc.labels)
                  /\ \E statName \in Visited, e \in PatternDefs :
                        /\ StatDesc(e[1], e[2]) = statsRun.ch[k].desc
                        /\ SubsysOf(statName) = e[1]
                        /\ ReplaceAll(FlatNameOf(statName), " ", "_") =
                               opensipsStats[e[1]][e[2]].regexp.pre
                                  \o statsRun.ch[k].labelValues[1]
                                  \o opensipsStats[e[1]][e[2]].regexp.suf

W_C18_PatternSample ==
    \E k \in 1..Len(statsRun.ch) :
        /\ statsRun.ch[k].desc.labels = <<"id">>
        /\ statsRun.ch[k].labelValues = <<"3">>
        /\ "load:load-proc-3" \in Visited

\* the place of a command in the order of the steps of Collect
Rank(c) ==
    CASE c = "version" -> 1
      [] c = "which" -> 2
      [] c = "ps" -> 3
      [] c = "get_statistics" -> 4
      [] c = "list_all_profiles" -> 5
      [] OTHER -> 6

IssuedBy(p, c) == \E i \in 1..Len(pass[p].issued) : pass[p].issued[i] = c

\* C19: the commands of a pass are issued in the order version, which, ps,
\* get_statistics, list_all_profiles, profile_get_values (the last one maybe
\* several times); the flags read after the which step are the membership
\* of get_statistics and list_all_profiles in the command cache;
\* get_statistics is issued only with the first flag set, list_all_profiles
\* and profile_get_values only with the second, profile_get_values only for
\* a profile the cache flags as having values; and a pass that found the
\* command cache empty, issued which and found get_statistics in the cache
\* after it has issued get_statistics when it returns.
CE_C19_OrderingAndGating ==
    [][\A p \in Passes :
          /\ \A i, j \in 1..Len(pass'[p].issued) :
                i < j => \/ Rank(pass'[p].issued[i]) < Rank(pass'[p].issued[j])
                         \/ /\ pass'[p].issued[i] = "profile_get_values"
                            /\ pass'[p].issued[j] = "profile_get_values"
          /\ Leaves(p, "Read83") =>
                /\ pass'[p].hasStatisticsCommand = ("get_statistics" \in commands)
                /\ pass'[p].hasProfilesCommand = ("list_all_profiles" \in commands)
          /\ Issues(p, "get_statistics") => pass[p].hasStatisticsCommand
          /\ Issues(p, "list_all_profiles") => pass[p].hasProfilesCommand
          /\ Issues(p, "profile_get_values") =>
                /\ pass[p].hasProfilesCommand
                /\ \E profile \in pass[p].todo \ pass'[p].todo :
                      profile \in DOMAIN profiles /\ profiles[profile]
          /\ (/\ Leaves(p, "deferred")
              /\ ~pass[p].hasCommands
              /\ IssuedBy(p, "which")
              /\ pass[p].hasStatisticsCommand) => IssuedBy(p, "get_statistics")]_vars

IsUpSample(m) == m.desc.fqName = "opensips_up"

\* the liveness probe of pass p succeeded: the client was created and the
\* version command, the first one issued, returned without error
ProbeSucceeded(p) ==
    /\ ~UrlParseFails(url)
    /\ IssuedBy(p, "version")
    /\ ~(pass[p].issued = <<"version">> /\ pass[p].err # "nil")

\* C20: a pass that has returned has sent exactly one up sample, the last
\* sample of the pass, of value 1 when the client was created and the
\* version command returned without error and of value 0 otherwise; the
\* value is decided by the version step alone and no later step changes it.
C20_OneUpSampleLast ==
    [][\A p \in Passes :
          /\ pass[p].pc = "done" =>
                /\ Len(SelectSeq(pass[p].ch, IsUpSample)) = 1
                /\ pass[p].ch[Len(pass[p].ch)] =
                      [desc |-> [fqName |-> "opensips_up", labels |-> <<>>],
                       valueType |-> "gauge",
                       value |-> IF ProbeSucceeded(p) THEN 1 ELSE 0,
                       labelValues |-> <<>>]
          /\ Issues(p, "version") =>
                /\ ~UrlParseFails(url)
                /\ pass[p].issued = <<>>
                /\ pass[p].up = 0
                /\ pass'[p].up = IF pass'[p].err = "nil" THEN 1 ELSE 0
          /\ (pass[p].pc \notin {"idle", "done"} /\ ~Issues(p, "version")) =>
                pass'[p].up = pass[p].up
          /\ Leaves(p, "deferred") =>
                /\ SelectSeq(pass[p].ch, IsUpSample) = <<>>
                /\ Len(pass'[p].ch) = Len(pass[p].ch) + 1
                /\ pass'[p].ch[Len(pass'[p].ch)].value = pass[p].up]_vars

W_C20_UpAfterLaterFailure ==
    \E p \in Passes :
        /\ pass[p].pc = "done"
        /\ pass[p].err = "error"
        /\ Len(pass[p].issued) > 1
        /\ Len(pass[p].ch) > 1
        /\ IsUpSample(pass[p].ch[Len(pass[p].ch)])
        /\ pass[p].ch[Len(pass[p].ch)].value = 1

Holds(p) == p \in mu.r \/ mu.w = p

\* C21: with command calls that return and samples that are received, every
\* pass that has started finishes (or the program has ended in a panic of a
\* command call, which is no return); a pass takes the lock only when it
\* does not hold it, holds it only inside the locked sections, and holds
\* nothing once it is at its deferred send or has returned.
C21_EveryPassFinishes ==
    /\ \A p \in Passes :
          (pass[p].pc \notin {"idle", "done"}) ~> (pass[p].pc = "done" \/ Crashed)
    /\ [](\A p \in Passes :
            /\ Holds(p) <=> pass[p].pc \in ReadPcs \cup WritePcs
            /\ p \in mu.r => mu.w = 0)
    /\ [][\A p \in Passes :
            ((p \in mu'.r /\ p \notin mu.r) \/ (mu'.w = p /\ mu.w # p))
                => (~Holds(p) /\ pass[p].pc \in RLockPcs \cup LockPcs)]_vars

W_C21_WriterWaitsForProfileLoop ==
    \E p, q \in Passes :
        /\ p # q
        /\ pass[p].pc \in LockPcs
        /\ pass[q].pc = "range231"
        /\ q \in mu.r
        /\ IssuedBy(q, "profile_get_values")
        /\ pass[q].err = "error"

\* pass q stores a cache field it fetched in this step
Stores(q) ==
    Leaves(q, "Write135") \/ Leaves(q, "Write153") \/ Leaves(q, "Write224")

\* C22: the uptime a pass stores into lastUptime when it resets the cache
\* is strictly less than the value it overwrites, and between the restart
\* decision of a pass and its reset no other pass stores a cache field (the
\* reset that follows would wipe it).
CE_C22_CheckAndResetAreOneUnit ==
    [][\A p \in Passes :
          /\ Leaves(p, "Write105") => pass[p].uptime < lastUptime
          /\ pass[p].pc = "Lock101" => \A q \in Passes \ {p} : ~Stores(q)]_vars

\* C23: no two samples the statistics loop has sent have the same metric
\* name and the same label values.
CE_C23_NoDuplicateSamples ==
    \A i, j \in 1..Len(statsRun.ch) :
        i < j => ~(/\ statsRun.ch[i].desc.fqName = statsRun.ch[j].desc.fqName
                   /\ statsRun.ch[i].labelValues = statsRun.ch[j].labelValues)
====
